---- MODULE Spec2Model ----
(***************************************************************************)
(* Model of the Coffee Roasting Dashboard (src/app.py).                    *)
(*                                                                         *)
(* The program is a Streamlit script: every operator interaction reruns    *)
(* the whole script top to bottom against the persistent session state.    *)
(* In one rerun at most one button reads True (the one that was clicked);  *)
(* a button can only be clicked if the previous rerun rendered it, and     *)
(* rendered it enabled.  One action of the model is one whole rerun.       *)
(*                                                                         *)
(* Time is counted in ticks of a quarter minute.  utils.event_handler and  *)
(* utils.profile_generator are not part of src/; they are modelled from    *)
(* the specification (EventTimeline, ProfileGenerator).                    *)
(***************************************************************************)
EXTENDS Integers, Sequences, FiniteSets, TLC

VARIABLES
    roast_data,         \* st.session_state.roast_data: rows [Time, Temperature]
    roast_in_progress,  \* st.session_state.roast_in_progress
    start_time,         \* st.session_state.start_time (NoTime = None)
    roast_profile,      \* st.session_state.roast_profile (NoProfile = None)
    events,             \* the event timeline behind event_handler
    now,                \* datetime.now(), in ticks
    rendered,           \* the buttons as the last rerun rendered them
    pressed,            \* the button whose click caused the last rerun
    chosen,             \* event type selected when Confirm Event was clicked
    current,            \* locals of the polling block in the last rerun
    stats,              \* locals of the Roast Statistics block in the last rerun
    ever_started,       \* history: a Start Roast click has been handled
    before,             \* history: the lifecycle state the last rerun began in
    last_lifecycle      \* history: the last of Roast Started / Roast Completed appended

vars == <<roast_data, roast_in_progress, start_time, roast_profile, events,
          now, rendered, pressed, chosen, current, stats, ever_started, before,
          last_lifecycle>>

----------------------------------------------------------------------------
\* Bounds of the model

MaxTime == 3
MaxEvents == 2
MaxData == 3

----------------------------------------------------------------------------
\* Values

NoTime == -1
NoProfile == <<>>
TicksPerMinute == 4

Levels == {"Light", "Dark"}
ChargeTemps == {190}
EventTypes == {"First Crack", "Other"}
EventKinds == EventTypes \cup {"Profile Generated", "Roast Started", "Roast Completed"}

Min(a, b) == IF a < b THEN a ELSE b
Max(a, b) == IF a > b THEN a ELSE b

RECURSIVE SeqMax(_)
SeqMax(s) == IF Len(s) = 1 THEN s[1] ELSE Max(s[1], SeqMax(Tail(s)))

----------------------------------------------------------------------------
\* utils.profile_generator (modelled from the specification, section 4.1):
\* a deterministic curve from charge temperature to a roast-level specific
\* end temperature, one sample every half minute, longer for darker roasts.

NumSamples(roast_level) == IF roast_level = "Light" THEN 1 ELSE 2
RisePerSample == 20

generate_roast_profile(roast_level, charge_temp) ==
    [i \in 1..NumSamples(roast_level) |-> charge_temp + RisePerSample * (i - 1)]

\* elapsed value, in ticks, of the sample at 0-based position i
SampleElapsed(i) == i * (TicksPerMinute \div 2)

----------------------------------------------------------------------------
\* utils.event_handler (modelled from the specification, section 4.2)

add_event(ev, event_type, details, t) ==
    Append(ev, [timestamp |-> t, event_type |-> event_type, details |-> details])

clear_events(ev) == <<>>

events_of(ev, event_type) == SelectSeq(ev, LAMBDA e : e.event_type = event_type)

Note(text) == [text |-> text, tenths |-> 0]

\* f"Duration: {duration.total_seconds()/60:.1f} minutes": minutes to one
\* decimal, rounded half to even (d ticks are 2.5 * d tenths of a minute)
DurationTenths(d) ==
    LET q == (25 * d) \div 10
        r == (25 * d) % 10
    IN IF r = 5 /\ q % 2 = 1 THEN q + 1 ELSE q

Duration(d) == [text |-> "Duration", tenths |-> DurationTenths(d)]

----------------------------------------------------------------------------
\* The handlers of the script, in script order.  s is the session state
\* [roast_data, roast_in_progress, start_time, roast_profile, events].

\* The lifecycle state of the specification, read off the session state
LifeState(in_progress, started_at) ==
    IF in_progress THEN "InProgress"
    ELSE IF started_at = NoTime THEN "Idle" ELSE "Completed"

Session == [roast_data |-> roast_data, roast_in_progress |-> roast_in_progress,
            start_time |-> start_time, roast_profile |-> roast_profile,
            events |-> events]

\* mutant: generating a profile also resets the session to Idle
GenerateHandlerResets(s, clicked, roast_level, charge_temp, t) ==
    IF clicked
    THEN [s EXCEPT !.roast_profile = generate_roast_profile(roast_level, charge_temp),
                   !.roast_in_progress = FALSE,
                   !.start_time = NoTime,
                   !.events = add_event(s.events, "Profile Generated", Note(roast_level), t)]
    ELSE s

GenerateHandler(s, clicked, roast_level, charge_temp, t) ==
    IF clicked
    THEN [s EXCEPT !.roast_profile = generate_roast_profile(roast_level, charge_temp),
                   !.events = add_event(s.events, "Profile Generated", Note(roast_level), t)]
    ELSE s

StartDisabled(s) == s.roast_in_progress \/ s.roast_profile = NoProfile

\* mutant: the handler forgets to record the start instant
StartHandlerNoStartTime(s, clicked, t) ==
    IF clicked
    THEN [s EXCEPT !.roast_in_progress = TRUE,
                   !.events = add_event(s.events, "Roast Started", Note("Batch"), t)]
    ELSE s

StartHandler(s, clicked, t) ==
    IF clicked
    THEN [s EXCEPT !.roast_in_progress = TRUE,
                   !.start_time = t,
                   !.events = add_event(s.events, "Roast Started", Note("Batch"), t)]
    ELSE s

AddDisabled(s) == ~s.roast_in_progress

\* The Confirm Event button is created, and read, only inside the branch
\* of a clicked Add Event button.
AddEventHandler(s, addClicked, confirmClicked, event_type, t) ==
    IF addClicked
    THEN IF confirmClicked
         THEN [s EXCEPT !.events = add_event(s.events, event_type, Note("note"), t)]
         ELSE s
    ELSE s

EndDisabled(s) == ~s.roast_in_progress

\* mutant: the completion event is stamped with the roast's start instant
EndHandlerStampsStart(s, clicked, t) ==
    IF clicked
    THEN [s EXCEPT !.roast_in_progress = FALSE,
                   !.events = add_event(s.events, "Roast Completed",
                                        Duration(t - s.start_time), s.start_time)]
    ELSE s

EndHandler(s, clicked, t) ==
    IF clicked
    THEN [s EXCEPT !.roast_in_progress = FALSE,
                   !.events = add_event(s.events, "Roast Completed",
                                        Duration(t - s.start_time), t)]
    ELSE s

\* int(x) truncates toward zero
IntTrunc(num, den) == IF num >= 0 THEN num \div den ELSE -((-num) \div den)

\* mutant: the index is rounded to the nearest sample instead of truncated
SampleIndexRounded(current_time, n) ==
    Min(IntTrunc(2 * current_time + TicksPerMinute \div 2, TicksPerMinute), n - 1)

\* min(int(current_time * 2), len(roast_profile) - 1), current_time in ticks
SampleIndex(current_time, n) ==
    Min(IntTrunc(2 * current_time, TicksPerMinute), n - 1)

Polls(s) == s.roast_in_progress /\ s.roast_profile # NoProfile

NoSample == [read |-> FALSE, elapsed |-> 0, index |-> 0, n |-> 0, temp |-> 0]

Sample(s, t) ==
    IF Polls(s)
    THEN LET ct == t - s.start_time
             n == Len(s.roast_profile)
             i == SampleIndex(ct, n)
         IN [read |-> TRUE, elapsed |-> ct, index |-> i, n |-> n,
             temp |-> s.roast_profile[i + 1]]
    ELSE NoSample

\* mutant: the roast finishes by itself once the profile's duration is over
PollingBlockAutoFinish(s, t) ==
    IF Polls(s)
    THEN LET c == Sample(s, t)
         IN [s EXCEPT !.roast_data =
                Append(s.roast_data, [Time |-> c.elapsed, Temperature |-> c.temp]),
                      !.roast_in_progress = (c.elapsed <= SampleElapsed(c.n - 1))]
    ELSE s

\* mutant: the new reading replaces the trace instead of being concatenated
PollingBlockReplaces(s, t) ==
    IF Polls(s)
    THEN LET c == Sample(s, t)
         IN [s EXCEPT !.roast_data = <<[Time |-> c.elapsed, Temperature |-> c.temp]>>]
    ELSE s

PollingBlock(s, t) ==
    IF Polls(s)
    THEN LET c == Sample(s, t)
         IN [s EXCEPT !.roast_data =
                Append(s.roast_data, [Time |-> c.elapsed, Temperature |-> c.temp])]
    ELSE s

ClearShown(events_df) == events_df # <<>>

\* mutant: the click drops only the newest event instead of the whole log
ClearHandlerDropsNewest(s, clicked, events_df) ==
    IF ClearShown(events_df) /\ clicked
    THEN [s EXCEPT !.events = SubSeq(s.events, 1, Len(s.events) - 1)]
    ELSE s

ClearHandler(s, clicked, events_df) ==
    IF ClearShown(events_df) /\ clicked
    THEN [s EXCEPT !.events = clear_events(s.events)]
    ELSE s

NoStats == [shown |-> FALSE, latest |-> 0, peak |-> 0, ttfc |-> "none", ticks |-> 0]

\* mutant: the peak is taken with min() instead of max()
StatisticsPeakIsMin(s, events_df) ==
    IF s.roast_data # <<>>
    THEN LET temps == [i \in 1..Len(s.roast_data) |-> s.roast_data[i].Temperature]
             fc == events_of(events_df, "First Crack")
         IN [shown |-> TRUE,
             latest |-> temps[Len(temps)],
             peak |-> -SeqMax([i \in 1..Len(temps) |-> -temps[i]]),
             ttfc |-> IF fc = <<>> THEN "N/A"
                      ELSE IF s.start_time = NoTime THEN "nan" ELSE "float",
             ticks |-> IF fc = <<>> \/ s.start_time = NoTime THEN 0
                       ELSE fc[1].timestamp - s.start_time]
    ELSE NoStats

Statistics(s, events_df) ==
    IF s.roast_data # <<>>
    THEN LET temps == [i \in 1..Len(s.roast_data) |-> s.roast_data[i].Temperature]
             fc == events_of(events_df, "First Crack")
         IN [shown |-> TRUE,
             latest |-> temps[Len(temps)],
             peak |-> SeqMax(temps),
             ttfc |-> IF fc = <<>> THEN "N/A"
                      ELSE IF s.start_time = NoTime THEN "nan" ELSE "float",
             ticks |-> IF fc = <<>> \/ s.start_time = NoTime THEN 0
                       ELSE fc[1].timestamp - s.start_time]
    ELSE NoStats

----------------------------------------------------------------------------
\* One rerun of the script with button b clicked ("none": a rerun caused by
\* another widget or a refresh).

Rerun(b, roast_level, charge_temp, event_type) ==
    LET s1 == GenerateHandler(Session, b = "generate", roast_level, charge_temp, now)
        s2 == StartHandler(s1, b = "start", now)
        s3 == AddEventHandler(s2, b = "add", b = "confirm", event_type, now)
        s4 == EndHandler(s3, b = "end", now)
        s5 == PollingBlock(s4, now)
        events_df == s5.events
        s6 == ClearHandler(s5, b = "clear", events_df)
    IN /\ Len(s6.roast_data) <= MaxData
       /\ Len(s6.events) <= MaxEvents
       /\ roast_data' = s6.roast_data
       /\ roast_in_progress' = s6.roast_in_progress
       /\ start_time' = s6.start_time
       /\ roast_profile' = s6.roast_profile
       /\ events' = s6.events
       /\ rendered' = [start |-> ~StartDisabled(s1),
                       add |-> ~AddDisabled(s2),
                       confirm |-> (b = "add"),
                       end |-> ~EndDisabled(s3),
                       clear |-> ClearShown(events_df)]
       /\ pressed' = b
       /\ chosen' = IF b = "confirm" THEN event_type ELSE "none"
       /\ current' = Sample(s4, now)
       /\ stats' = Statistics(s6, events_df)
       /\ ever_started' = (ever_started \/ b = "start")
       /\ before' = LifeState(roast_in_progress, start_time)
       /\ last_lifecycle' =
            LET appended == SelectSeq(SubSeq(events_df, Len(events) + 1, Len(events_df)),
                                LAMBDA e : e.event_type \in {"Roast Started", "Roast Completed"})
            IN IF appended = <<>> THEN last_lifecycle
               ELSE appended[Len(appended)].event_type
       /\ UNCHANGED now

----------------------------------------------------------------------------
\* Actions

Init ==
    /\ roast_data = <<>>
    /\ roast_in_progress = FALSE
    /\ start_time = NoTime
    /\ roast_profile = NoProfile
    /\ events = <<>>
    /\ now = 0
    /\ rendered = [start |-> FALSE, add |-> FALSE, confirm |-> FALSE,
                   end |-> FALSE, clear |-> FALSE]
    /\ pressed = "none"
    /\ chosen = "none"
    /\ current = NoSample
    /\ stats = NoStats
    /\ ever_started = FALSE
    /\ before = "Idle"
    /\ last_lifecycle = "none"

Tick ==
    /\ now < MaxTime
    /\ now' = now + 1
    /\ UNCHANGED <<roast_data, roast_in_progress, start_time, roast_profile,
                   events, rendered, pressed, chosen, current, stats, ever_started,
                   before, last_lifecycle>>

Generate ==
    /\ now <= MaxTime
    /\ \E l \in Levels, c \in ChargeTemps : Rerun("generate", l, c, "Other")

StartRoast ==
    /\ rendered.start
    /\ Rerun("start", "Light", 190, "Other")

AddEvent ==
    /\ rendered.add
    /\ Rerun("add", "Light", 190, "Other")

ConfirmEvent ==
    /\ rendered.confirm
    /\ \E k \in EventTypes : Rerun("confirm", "Light", 190, k)

EndRoast ==
    /\ rendered.end
    /\ Rerun("end", "Light", 190, "Other")

ClearEvents ==
    /\ rendered.clear
    /\ Rerun("clear", "Light", 190, "Other")

Poll ==
    /\ now <= MaxTime
    /\ Rerun("none", "Light", 190, "Other")

Next ==
    \/ Tick
    \/ Generate
    \/ StartRoast
    \/ AddEvent
    \/ ConfirmEvent
    \/ EndRoast
    \/ ClearEvents
    \/ Poll

Spec == Init /\ [][Next]_vars

----------------------------------------------------------------------------
\* Vocabulary of the properties

Idle == ~roast_in_progress /\ start_time = NoTime
InProgress == roast_in_progress
Completed == ~roast_in_progress /\ start_time # NoTime

\* The step is the rerun caused by a click on button b (reruns read the
\* clock, only Tick advances it).
RerunStep(b) == pressed' = b /\ now' = now

Event(t, event_type, details) ==
    [timestamp |-> t, event_type |-> event_type, details |-> details]

IsPrefix(s, t) == Len(s) <= Len(t) /\ \A i \in 1..Len(s) : s[i] = t[i]

----------------------------------------------------------------------------
\* C1: start_time is None exactly when no roast has ever been started, and
\* whenever roast_in_progress is true both start_time and roast_profile are
\* not None.
C1_StartInstantInvariant ==
    /\ (start_time = NoTime) <=> ~ever_started
    /\ roast_in_progress => (start_time # NoTime /\ roast_profile # NoProfile)

\* C1 witness: a roast that was started is in progress.
C1_Witness ==
    /\ pressed = "start"
    /\ roast_in_progress
    /\ start_time = now
    /\ roast_profile # NoProfile

\* C2 (as claimed): a Start Roast click succeeds only in Idle with a profile
\* present (start_time = now, InProgress, exactly one Roast Started event
\* appended); otherwise it is rejected and leaves roast_in_progress,
\* start_time, the profile and the timeline unchanged.
C2_StartOnlyFromIdle ==
    [][RerunStep("start") =>
         IF Idle /\ roast_profile # NoProfile
         THEN /\ roast_in_progress'
              /\ start_time' = now
              /\ events' = Append(events, Event(now, "Roast Started", Note("Batch")))
         ELSE UNCHANGED <<roast_in_progress, start_time, roast_profile, events>>]_vars

C4_GenerateOnlyInIdle ==
    [][RerunStep("generate") =>
         IF Idle
         THEN /\ roast_profile' # NoProfile
              /\ Len(events') = Len(events) + 1
              /\ IsPrefix(events, events')
              /\ events'[Len(events')].event_type = "Profile Generated"
              /\ UNCHANGED <<roast_in_progress, start_time>>
         ELSE UNCHANGED <<roast_profile, events>>]_vars

\* C5 (as claimed): while the session is InProgress, the rerun of a Confirm
\* Event click (after Add Event) appends exactly one event of the chosen
\* kind with timestamp = now; outside InProgress it appends nothing.
C5_ConfirmAppendsEvent ==
    [][RerunStep("confirm") =>
         IF InProgress
         THEN events' = Append(events, Event(now, chosen', Note("note")))
         ELSE events' = events]_vars

\* C6 (as claimed): an End Roast click in InProgress moves the session to
\* Completed, appends exactly one Roast Completed event carrying the elapsed
\* duration now - start_time (defined, non-negative) and keeps start_time and
\* the profile; when not InProgress it is rejected and changes nothing.
C6_EndOnlyInProgress ==
    [][RerunStep("end") =>
         IF InProgress
         THEN /\ start_time # NoTime
              /\ now - start_time >= 0
              /\ Completed'
              /\ events' = Append(events,
                     Event(now, "Roast Completed", Duration(now - start_time)))
              /\ UNCHANGED <<start_time, roast_profile>>
         ELSE UNCHANGED <<roast_in_progress, start_time, roast_profile, events>>]_vars

\* The 0-based positions of the profile's samples whose elapsed value is at
\* most the requested one
SamplesUpTo(elapsed, n) == {i \in 0..(n - 1) : SampleElapsed(i) <= elapsed}

SetMax(S) == CHOOSE x \in S : \A y \in S : y <= x

\* C7: whenever the live sample is read, elapsed >= 0, the index read lies in
\* [0, n-1] and is the position of the latest sample whose elapsed value is
\* <= the request, the temperature shown is that sample's, and beyond the
\* last sample it is the last sample's temperature.
C7_SampleClamped ==
    current.read =>
        LET n == Len(roast_profile)
        IN /\ n >= 1 /\ current.n = n
           /\ current.elapsed >= 0
           /\ current.index \in 0..(n - 1)
           /\ current.index = SetMax(SamplesUpTo(current.elapsed, n))
           /\ current.temp = roast_profile[current.index + 1]
           /\ current.elapsed > SampleElapsed(n - 1) => current.temp = roast_profile[n]

\* C7 witness: the sample was read at an elapsed time whose raw index
\* floor(2 * elapsed) lies past the end of the profile.
C7_Witness ==
    /\ current.read
    /\ IntTrunc(2 * current.elapsed, TicksPerMinute) > current.n - 1
    /\ current.temp = roast_profile[Len(roast_profile)]

\* C8: a rerun in which no button was pressed, and the passing of time,
\* leave roast_in_progress, start_time, roast_profile and the timeline
\* unchanged; roast_in_progress changes only in the Start Roast and End
\* Roast reruns.
C8_NoTimeDrivenTransition ==
    [][/\ (RerunStep("none") \/ now' # now) =>
            UNCHANGED <<roast_in_progress, start_time, roast_profile, events>>
       /\ (roast_in_progress' # roast_in_progress \/ start_time' # start_time) =>
            (RerunStep("start") \/ RerunStep("end"))]_vars

\* C8 witness: a rerun without a click polled the roast after the elapsed
\* time had passed the end of the profile, and the roast is still in progress.
C8_Witness ==
    /\ pressed = "none"
    /\ before = "InProgress"
    /\ roast_in_progress
    /\ current.read
    /\ current.elapsed > SampleElapsed(current.n - 1)

C10_EventsImmutableUntilClear ==
    [][IF RerunStep("clear")
       THEN events' = <<>> /\ \A k \in EventKinds : events_of(events', k) = <<>>
       ELSE IsPrefix(events, events')]_vars

\* C10 witness: Clear Events emptied a timeline that held events.
C10_Witness ==
    /\ pressed = "clear"
    /\ rendered.clear
    /\ events = <<>>

\* C11: in every reachable state the timestamps of the timeline are
\* non-decreasing: each event's timestamp is >= that of the event before it.
C11_TimestampsNonDecreasing ==
    \A i \in 1..(Len(events) - 1) : events[i].timestamp <= events[i + 1].timestamp

\* C11 witness: the timeline holds two events appended at different times.
C11_Witness ==
    /\ Len(events) >= 2
    /\ events[1].timestamp < events[2].timestamp

\* C12: while no sample has been recorded the statistics are absent; otherwise
\* latest_temperature is the temperature of the most recently appended sample
\* and peak_temperature is the maximum over all samples recorded so far, so
\* peak_temperature >= latest_temperature.
C12_LatestAndPeak ==
    /\ stats.shown <=> (roast_data # <<>>)
    /\ stats.shown =>
         /\ stats.latest = roast_data[Len(roast_data)].Temperature
         /\ \E i \in 1..Len(roast_data) : stats.peak = roast_data[i].Temperature
         /\ \A i \in 1..Len(roast_data) : stats.peak >= roast_data[i].Temperature
         /\ stats.peak >= stats.latest

\* C12 witness: the trace has gone down again, the latest sample is below the
\* peak.
C12_Witness ==
    /\ stats.shown
    /\ Len(roast_data) >= 2
    /\ stats.latest < stats.peak

\* C14: whenever the live trace is non-empty, start_time and roast_profile are
\* not None, so the statistics block never computes time_to_first_crack
\* against an unset start instant.
C14_TraceImpliesStarted ==
    /\ roast_data # <<>> => (start_time # NoTime /\ roast_profile # NoProfile)
    /\ stats.shown => (start_time # NoTime /\ stats.ttfc # "nan")

\* C14 witness: the statistics block ran on a non-empty trace after the roast
\* had been ended.
C14_Witness ==
    /\ stats.shown
    /\ roast_data # <<>>
    /\ ~roast_in_progress
    /\ pressed = "end"

\* C15: the live trace is append-only: no step removes or rewrites a recorded
\* sample; a rerun appends exactly one sample when roast_in_progress is true
\* at the polling block (the Start Roast rerun included) and none otherwise
\* (the End Roast rerun included); the reported peak temperature never
\* decreases.
C15_TraceAppendOnly ==
    [][/\ IsPrefix(roast_data, roast_data')
       /\ Len(roast_data') =
            Len(roast_data) + (IF now' = now /\ roast_in_progress' THEN 1 ELSE 0)
       /\ RerunStep("start") => Len(roast_data') = Len(roast_data) + 1
       /\ RerunStep("end") => roast_data' = roast_data
       /\ stats.shown => (stats'.shown /\ stats'.peak >= stats.peak)]_vars

\* C15 witness: a roast restarted after completion appended to the samples of
\* the earlier roast.
C15_Witness ==
    /\ pressed = "start"
    /\ before = "Completed"
    /\ Len(roast_data) >= 2
    /\ stats.shown

\* C16 (as claimed): Roast Started and Roast Completed are appended in
\* alternating order beginning with Roast Started, and the last one appended
\* is Roast Started exactly when roast_in_progress is true (the counts of the
\* two differ by one exactly then, and are equal otherwise).
C16_StartEndAlternate ==
    [][/\ RerunStep("start") => last_lifecycle # "Roast Started"
       /\ RerunStep("end") => last_lifecycle = "Roast Started"
       /\ (last_lifecycle' = "Roast Started") <=> roast_in_progress']_vars

====
